---- MODULE Spec2Model ----
(***************************************************************************)
(* LoggingService of nestjs-logging-lib (src/src/logging.service.ts).      *)
(*                                                                         *)
(* The service has no fields.  The only state its operations act on is the *)
(* console: the ordered sequence of writes made through console.log,       *)
(* console.error, console.warn, console.debug and console.info.  `calls`   *)
(* is the history of the calls made so far (arguments, outcome, writes);   *)
(* the code keeps no such history, the properties below are stated on it.  *)
(*                                                                         *)
(* An optional JavaScript value (an optional parameter, a property that    *)
(* may be missing) is a sequence of length 0 (undefined / not supplied) or *)
(* 1 (the supplied value).                                                 *)
(***************************************************************************)
EXTENDS Integers, Sequences, FiniteSets, TLC

VARIABLES console, calls

vars == <<console, calls>>

---------------------------------------------------------------------------
(* Optional values *)

None == <<>>

Some(x) == <<x>>

---------------------------------------------------------------------------
(* JavaScript values of the `any`-typed fields (body, params, headers) *)

JNull == [k |-> "null"]

JNum(n) == [k |-> "number", n |-> n]

JStr(s) == [k |-> "string", s |-> s]

JArr(items) == [k |-> "array", items |-> items]

\* members: a sequence of [key, val], in property insertion order
JObj(members) == [k |-> "object", members |-> members]

JFunc == [k |-> "function"]

\* an object one of whose properties refers back to the object itself
JCircular == [k |-> "circular"]

\* JavaScript truthiness of a string-typed optional: undefined and "" are falsy
TruthyStr(o) == o # None /\ o[1] # ""

\* JavaScript truthiness of a number-typed optional: undefined and 0 are falsy
TruthyNum(o) == o # None /\ o[1] # 0

\* JavaScript truthiness of an any-typed optional: undefined, null, 0 and ""
\* are falsy; every object, array and function is truthy
TruthyVal(o) ==
    /\ o # None
    /\ o[1].k # "null"
    /\ (o[1].k = "number" => o[1].n # 0)
    /\ (o[1].k = "string" => o[1].s # "")

\* JavaScript truthiness of a Date-typed optional: every Date object is truthy
TruthyDate(o) == o # None

---------------------------------------------------------------------------
(* Array.prototype.join *)

RECURSIVE Join(_, _)
Join(parts, sep) ==
    IF parts = <<>> THEN ""
    ELSE IF Len(parts) = 1 THEN parts[1]
    ELSE parts[1] \o sep \o Join(Tail(parts), sep)

---------------------------------------------------------------------------
(* JSON.stringify.  The result is [st, s]: st = "ok" with the text s,      *)
(* st = "undefined" (JSON.stringify returns undefined for a function), or  *)
(* st = "throw" (TypeError: Converting circular structure to JSON).        *)

RECURSIVE EscapeFrom(_, _)
EscapeFrom(s, i) ==
    IF i > Len(s) THEN ""
    ELSE LET c == SubSeq(s, i, i)
             e == IF c = "\"" THEN "\\\""
                  ELSE IF c = "\\" THEN "\\\\"
                  ELSE IF c = "\n" THEN "\\n"
                  ELSE c
         IN e \o EscapeFrom(s, i + 1)

Quote(s) == "\"" \o EscapeFrom(s, 1) \o "\""

RECURSIVE JSONstringify(_)
JSONstringify(v) ==
    CASE v.k = "null" -> [st |-> "ok", s |-> "null"]
      [] v.k = "number" -> [st |-> "ok", s |-> ToString(v.n)]
      [] v.k = "string" -> [st |-> "ok", s |-> Quote(v.s)]
      [] v.k = "function" -> [st |-> "undefined", s |-> ""]
      [] v.k = "circular" -> [st |-> "throw", s |-> ""]
      [] v.k = "array" ->
            LET rs == [i \in 1..Len(v.items) |-> JSONstringify(v.items[i])]
                \* an element that has no JSON form is written as null
                el == [i \in 1..Len(v.items) |->
                          IF rs[i].st = "ok" THEN rs[i].s ELSE "null"]
            IN IF \E i \in 1..Len(v.items) : rs[i].st = "throw"
               THEN [st |-> "throw", s |-> ""]
               ELSE [st |-> "ok", s |-> "[" \o Join(el, ",") \o "]"]
      [] v.k = "object" ->
            LET rs == [i \in 1..Len(v.members) |-> JSONstringify(v.members[i].val)]
                \* a property whose value has no JSON form is left out
                kept == SelectSeq([i \in 1..Len(v.members) |-> i],
                                  LAMBDA i : rs[i].st = "ok")
                el == [j \in 1..Len(kept) |->
                          Quote(v.members[kept[j]].key) \o ":" \o rs[kept[j]].s]
            IN IF \E i \in 1..Len(v.members) : rs[i].st = "throw"
               THEN [st |-> "throw", s |-> ""]
               ELSE [st |-> "ok", s |-> "{" \o Join(el, ",") \o "}"]

\* `${JSON.stringify(x)}` inside a template literal: undefined prints as
\* the text undefined
TemplateOfJSON(v) ==
    LET r == JSONstringify(v)
    IN IF r.st = "undefined" THEN "undefined" ELSE r.s

\* does evaluating JSON.stringify(o) throw, for a truthy optional o
JSONThrows(o) == TruthyVal(o) /\ JSONstringify(o[1]).st = "throw"

---------------------------------------------------------------------------
(* Date.prototype.toISOString.  A Date is [valid, day, ms]: the days since *)
(* 1970-01-01 and the milliseconds within the day (the time value split in *)
(* two to stay within machine integers), or an invalid Date (time value    *)
(* NaN), for which toISOString throws RangeError.                          *)

Pad(n, w) ==
    LET s == ToString(n)
    IN IF Len(s) >= w THEN s
       ELSE SubSeq("0000", 1, w - Len(s)) \o s

toISOString(d) ==
    LET z == d.day + 719468
        era == z \div 146097
        doe == z - era * 146097
        yoe == (doe - doe \div 1460 + doe \div 36524 - doe \div 146096) \div 365
        doy == doe - (365 * yoe + yoe \div 4 - yoe \div 100)
        mp == (5 * doy + 2) \div 153
        dd == doy - (153 * mp + 2) \div 5 + 1
        mm == IF mp < 10 THEN mp + 3 ELSE mp - 9
        yy == yoe + era * 400 + (IF mm <= 2 THEN 1 ELSE 0)
        hh == d.ms \div 3600000
        mi == (d.ms % 3600000) \div 60000
        ss == (d.ms % 60000) \div 1000
        ml == d.ms % 1000
    IN Pad(yy, 4) \o "-" \o Pad(mm, 2) \o "-" \o Pad(dd, 2) \o "T" \o
       Pad(hh, 2) \o ":" \o Pad(mi, 2) \o ":" \o Pad(ss, 2) \o "." \o
       Pad(ml, 3) \o "Z"

DateThrows(o) == TruthyDate(o) /\ ~o[1].valid

---------------------------------------------------------------------------
(* logging.constants.ts *)

LOG_TYPES ==
    [API_REQUEST |-> "API_REQUEST", API_RESPONSE |-> "API_RESPONSE",
     QUERY |-> "QUERY", ERROR |-> "ERROR"]

\* ApiRequestLog: every property as an optional (the type marks method and
\* url as required, nothing checks it at run time)
ApiRequestLog(method, url, body, headers, userAgent, ip) ==
    [method |-> method, url |-> url, body |-> body, headers |-> headers,
     userAgent |-> userAgent, ip |-> ip]

ApiResponseLog(status, duration, body, contentLength, timestamp) ==
    [status |-> status, duration |-> duration, body |-> body,
     contentLength |-> contentLength, timestamp |-> timestamp]

QueryLog(sql, params, duration, rows, database, table) ==
    [sql |-> sql, params |-> params, duration |-> duration, rows |-> rows,
     database |-> database, table |-> table]

ErrorLog(message, exception, stackTrace, fileName, lineNumber, userId, requestId) ==
    [message |-> message, exception |-> exception, stackTrace |-> stackTrace,
     fileName |-> fileName, lineNumber |-> lineNumber, userId |-> userId,
     requestId |-> requestId]

---------------------------------------------------------------------------
(* The private formatters.  Each returns [threw, s]: threw = "" and the    *)
(* joined parts, or the name of the exception that escapes it.             *)

\* `if (cond) parts.push(text)`
Push(cond, text) == IF cond THEN <<text>> ELSE <<>>

Returned(s) == [threw |-> "", s |-> s]

Threw(e) == [threw |-> e, s |-> ""]

formatApiRequest(data) ==
    LET parts ==
            Push(TruthyStr(data.method), "[Method=" \o data.method[1] \o "]") \o
            Push(TruthyStr(data.url), "[URL=" \o data.url[1] \o "]") \o
            Push(TruthyVal(data.body), "[Body=" \o TemplateOfJSON(data.body[1]) \o "]") \o
            Push(TruthyVal(data.headers), "[Headers=" \o TemplateOfJSON(data.headers[1]) \o "]") \o
            Push(TruthyStr(data.userAgent), "[UserAgent=" \o data.userAgent[1] \o "]") \o
            Push(TruthyStr(data.ip), "[IP=" \o data.ip[1] \o "]")
    IN IF JSONThrows(data.body) \/ JSONThrows(data.headers)
       THEN Threw("TypeError")
       ELSE Returned(Join(parts, " "))

formatApiResponse(data) ==
    LET parts ==
            Push(TruthyNum(data.status), "[Status=" \o ToString(data.status[1]) \o "]") \o
            Push(TruthyNum(data.duration), "[Duration=" \o ToString(data.duration[1]) \o "ms]") \o
            Push(TruthyVal(data.body), "[Body=" \o TemplateOfJSON(data.body[1]) \o "]") \o
            Push(TruthyNum(data.contentLength),
                 "[ContentLength=" \o ToString(data.contentLength[1]) \o "]") \o
            Push(TruthyDate(data.timestamp),
                 "[Timestamp=" \o toISOString(data.timestamp[1]) \o "]")
    IN IF JSONThrows(data.body) THEN Threw("TypeError")
       ELSE IF DateThrows(data.timestamp) THEN Threw("RangeError")
       ELSE Returned(Join(parts, " "))

formatQuery(data) ==
    LET parts ==
            Push(TruthyStr(data.sql), "[SQL=" \o data.sql[1] \o "]") \o
            Push(TruthyVal(data.params), "[Params=" \o TemplateOfJSON(data.params[1]) \o "]") \o
            Push(TruthyNum(data.duration), "[Duration=" \o ToString(data.duration[1]) \o "ms]") \o
            Push(TruthyNum(data.rows), "[Rows=" \o ToString(data.rows[1]) \o "]") \o
            Push(TruthyStr(data.database), "[Database=" \o data.database[1] \o "]") \o
            Push(TruthyStr(data.table), "[Table=" \o data.table[1] \o "]")
    IN IF JSONThrows(data.params) THEN Threw("TypeError")
       ELSE Returned(Join(parts, " "))

formatError(data) ==
    LET parts ==
            Push(TruthyStr(data.message), "[Message=" \o data.message[1] \o "]") \o
            Push(TruthyStr(data.exception), "[Exception=" \o data.exception[1] \o "]") \o
            Push(TruthyStr(data.fileName), "[File=" \o data.fileName[1] \o "]") \o
            Push(TruthyNum(data.lineNumber), "[Line=" \o ToString(data.lineNumber[1]) \o "]") \o
            Push(TruthyStr(data.userId), "[UserId=" \o data.userId[1] \o "]") \o
            Push(TruthyStr(data.requestId), "[RequestId=" \o data.requestId[1] \o "]")
    IN Returned(Join(parts, " "))

---------------------------------------------------------------------------
(* The five primitive operations.  Each is the sequence of console writes  *)
(* the call makes, a write being [sink, text].                             *)

Sinks == {"console.log", "console.error", "console.warn", "console.debug", "console.info"}

Write(sink, text) == [sink |-> sink, text |-> text]

\* `${context ? '[' + context + ']' : ''}`
ContextTag(context) == IF TruthyStr(context) THEN "[" \o context[1] \o "]" ELSE ""

\* a running number of the writes made so far put in front of the message
log_numbered(message, context) ==
    <<Write("console.log",
            "[LOG]" \o ContextTag(context) \o " #" \o ToString(Len(console)) \o " " \o message)>>

log(message, context) ==
    <<Write("console.log", "[LOG]" \o ContextTag(context) \o " " \o message)>>

\* the trace appended to the primary line instead of written on its own
error_traceInline(message, trace, context) ==
    <<Write("console.error",
            "[ERROR]" \o ContextTag(context) \o " " \o message \o
            (IF TruthyStr(trace) THEN "\n" \o trace[1] ELSE ""))>>

error(message, trace, context) ==
    <<Write("console.error", "[ERROR]" \o ContextTag(context) \o " " \o message)>> \o
    (IF TruthyStr(trace) THEN <<Write("console.error", trace[1])>> ELSE <<>>)

\* the context bracket written whether or not a context was given
warn_alwaysBracket(message, context) ==
    <<Write("console.warn",
            "[WARN][" \o (IF context = None THEN "undefined" ELSE context[1]) \o "] " \o message)>>

warn(message, context) ==
    <<Write("console.warn", "[WARN]" \o ContextTag(context) \o " " \o message)>>

debug(message, context) ==
    <<Write("console.debug", "[DEBUG]" \o ContextTag(context) \o " " \o message)>>

\* verbose merged into the informational output
verbose_toLog(message, context) ==
    <<Write("console.log", "[VERBOSE]" \o ContextTag(context) \o " " \o message)>>

verbose(message, context) ==
    <<Write("console.info", "[VERBOSE]" \o ContextTag(context) \o " " \o message)>>

---------------------------------------------------------------------------
(* The four specialized operations.  Each is [threw, rendered, writes]:    *)
(* the exception that escapes the call ("" when it returns), the message   *)
(* the formatter rendered and the console writes the call makes.           *)

\* the default applied only to a missing context (`context ?? dflt`)
OrDefault_nullish(context, dflt) == IF context # None THEN context ELSE Some(dflt)

\* `context || dflt`
OrDefault(context, dflt) == IF TruthyStr(context) THEN context ELSE Some(dflt)

Outcome(r, writes) ==
    IF r.threw # ""
    THEN [threw |-> r.threw, rendered |-> None, writes |-> <<>>]
    ELSE [threw |-> "", rendered |-> Some(r.s), writes |-> writes]

logApiRequest(data, context) ==
    LET logMessage == formatApiRequest(data)
    IN Outcome(logMessage, log(logMessage.s, OrDefault(context, LOG_TYPES.API_REQUEST)))

logApiResponse(data, context) ==
    LET logMessage == formatApiResponse(data)
    IN Outcome(logMessage, log(logMessage.s, OrDefault(context, LOG_TYPES.API_RESPONSE)))

logQuery(data, context) ==
    LET logMessage == formatQuery(data)
    IN Outcome(logMessage, log(logMessage.s, OrDefault(context, LOG_TYPES.QUERY)))

\* the stack trace of the record not handed on to error
logError_noTrace(data, context) ==
    LET logMessage == formatError(data)
    IN Outcome(logMessage, error(logMessage.s, None, OrDefault(context, LOG_TYPES.ERROR)))

logError(data, context) ==
    LET logMessage == formatError(data)
    IN Outcome(logMessage,
               error(logMessage.s, data.stackTrace, OrDefault(context, LOG_TYPES.ERROR)))

---------------------------------------------------------------------------
(* Inputs *)

\* the longest history of calls explored
MaxCalls == 3

Contexts == {None, Some(""), Some("Svc")}

Trace == "trace-line-1\ntrace-line-2"

Traces == {None, Some(""), Some(Trace)}

John == JObj(<<[key |-> "name", val |-> JStr("John")]>>)

ContentType == JObj(<<[key |-> "content-type", val |-> JStr("application/json")]>>)

\* 2025-07-03T10:30:45.123Z
ValidDate == [valid |-> TRUE, day |-> 20272, ms |-> 37845123]

InvalidDate == [valid |-> FALSE, day |-> 0, ms |-> 0]

Get == ApiRequestLog(Some("GET"), Some("/x"), None, None, None, None)

Created == ApiResponseLog(Some(201), Some(123), Some(John), None, Some(ValidDate))

Select == QueryLog(Some("SELECT 1"), Some(JArr(<<JNum(10)>>)), Some(15), Some(1), None, None)

Boom(stackTrace) == ErrorLog(Some("boom"), None, stackTrace, None, None, None, None)

\* logQuery({sql: "SELECT 1", duration: 0, rows: 0})
SelectOne == QueryLog(Some("SELECT 1"), None, Some(0), Some(0), None, None)

\* The calls a history of up to MaxCalls calls is made of: a few of each
\* operation, with no context, an empty one and a name, with and without a
\* trace, a record with zero values, one whose body is circular and one whose
\* body is a function.
Sequenced ==
    [limit |-> MaxCalls,
     sinkFails |-> {0},
     primitive |-> {<<"hello", None>>, <<"hello", Some("Svc")>>},
     error |-> {<<"boom", None, None>>, <<"boom", Some(""), Some("Svc")>>,
                <<"boom", Some(Trace), None>>, <<"boom", Some(Trace), Some("Svc")>>},
     request |-> {<<Get, None>>, <<Get, Some("")>>, <<Get, Some("Svc")>>,
                  <<ApiRequestLog(Some("GET"), Some("/x"), Some(JCircular), None, None, None),
                    None>>,
                  <<ApiRequestLog(Some("GET"), Some("/x"), Some(JFunc), None, None, None),
                    None>>},
     response |-> {<<Created, None>>, <<Created, Some("")>>, <<Created, Some("Svc")>>},
     query |-> {<<Select, None>>, <<Select, Some("")>>, <<Select, Some("Svc")>>,
                <<SelectOne, Some("Svc")>>},
     errorLog |-> {<<Boom(None), Some("Svc")>>, <<Boom(Some("")), Some("Svc")>>,
                   <<Boom(Some(Trace)), Some("Svc")>>, <<Boom(Some(Trace)), None>>,
                   <<Boom(None), Some("")>>}]

OptStrings(s) == {None, Some(""), Some(s)}

OptString(s) == {None, Some(s)}

OptNumbers(n) == {None, Some(0), Some(n)}

\* The first call on a fresh service, over a grid of records: every property
\* missing, supplied falsy (empty string, zero) or supplied with a value;
\* structured values that JSON.stringify renders, throws on, or has no text for.
Grid ==
    [limit |-> 1,
     sinkFails |-> {0},
     primitive |-> {"", "hello", "[x] y"} \X Contexts,
     error |-> {"", "boom"} \X Traces \X Contexts,
     request |->
        {ApiRequestLog(m, u, b, h, a, i) :
            m \in OptStrings("GET"), u \in OptStrings("/x"),
            b \in {None, Some(JNum(0)), Some(JStr("")), Some(John),
                   Some(JCircular), Some(JFunc)},
            h \in {None, Some(ContentType)},
            a \in OptString("PostmanRuntime/7.32.3"), i \in OptString("::1")}
        \X Contexts,
     response |->
        {ApiResponseLog(st, d, b, c, t) :
            st \in OptNumbers(200), d \in OptNumbers(145),
            b \in {None, Some(John), Some(JCircular)},
            c \in OptNumbers(1024),
            t \in {None, Some(ValidDate), Some(InvalidDate)}}
        \X Contexts,
     query |->
        {QueryLog(q, p, d, r, db, t) :
            q \in OptStrings("SELECT 1"),
            p \in {None, Some(JArr(<<>>)), Some(JArr(<<JNum(25), JStr("Bangkok")>>)),
                   Some(JArr(<<JFunc>>)), Some(JArr(<<JCircular>>))},
            d \in OptNumbers(15), r \in OptNumbers(42),
            db \in OptString("app_db"), t \in OptString("users")}
        \X Contexts,
     errorLog |->
        {ErrorLog(m, e, s, f, l, u, r) :
            m \in OptStrings("boom"), e \in OptString("NotFoundException"),
            s \in Traces, f \in OptString("user.service.ts"),
            l \in OptNumbers(45), u \in OptString("123"),
            r \in OptString("req-abc-456")}
        \X Contexts]

\* the longest history of calls explored with a console that can throw
MaxSinkCalls == 2

\* Calls made while the console can throw: any one console call of an
\* operation, the first or the second, may be the one that throws.
Failing ==
    [limit |-> MaxSinkCalls,
     sinkFails |-> {0, 1, 2},
     primitive |-> {<<"hello", Some("Svc")>>},
     error |-> {<<"boom", None, None>>, <<"boom", Some(Trace), Some("Svc")>>},
     request |-> {<<Get, None>>},
     response |-> {<<Created, Some("Svc")>>},
     query |-> {<<Select, None>>},
     errorLog |-> {<<Boom(None), Some("Svc")>>, <<Boom(Some(Trace)), Some("Svc")>>}]

---------------------------------------------------------------------------
(* The state machine: one action per public operation *)

Init ==
    /\ console = <<>>
    /\ calls = <<>>

\* what a primitive call comes to: it returns, having made its writes
Primitive(writes) == [threw |-> "", rendered |-> None, writes |-> writes]

\* a try / catch around each console call: a call that throws is skipped and
\* the operation goes on and returns
Emit_swallowed(writes, failAt) ==
    IF failAt = 0
    THEN [threw |-> "", written |-> writes, attempts |-> writes, failed |-> None]
    ELSE [threw |-> "",
          written |-> SubSeq(writes, 1, failAt - 1) \o SubSeq(writes, failAt + 1, Len(writes)),
          attempts |-> writes,
          failed |-> Some(writes[failAt])]

\* The console calls of one operation, made one after the other with no
\* try / catch around them: failAt = 0 when every call succeeds, else the
\* failAt-th call throws.  written: the writes that reached the console;
\* attempts: the console calls made, in order; failed: the call that threw.
\* An exception thrown by a console call escapes the operation.
Emit(writes, failAt) ==
    IF failAt = 0
    THEN [threw |-> "", written |-> writes, attempts |-> writes, failed |-> None]
    ELSE [threw |-> "SinkError",
          written |-> SubSeq(writes, 1, failAt - 1),
          attempts |-> SubSeq(writes, 1, failAt),
          failed |-> Some(writes[failAt])]

Invoke(U, op, data, message, trace, context, r) ==
    \E failAt \in U.sinkFails :
        /\ failAt <= Len(r.writes)
        /\ LET e == Emit(r.writes, failAt)
           IN /\ console' = console \o e.written
              /\ calls' = Append(calls,
                           [op |-> op, data |-> data, message |-> message,
                            trace |-> trace, context |-> context,
                            threw |-> IF r.threw # "" THEN r.threw ELSE e.threw,
                            rendered |-> r.rendered, writes |-> e.written,
                            attempts |-> e.attempts, failed |-> e.failed])

Log(U) ==
    /\ Len(calls) < U.limit
    /\ \E a \in U.primitive :
          Invoke(U, "log", None, Some(a[1]), None, a[2], Primitive(log(a[1], a[2])))

Error(U) ==
    /\ Len(calls) < U.limit
    /\ \E a \in U.error :
          Invoke(U, "error", None, Some(a[1]), a[2], a[3], Primitive(error(a[1], a[2], a[3])))

Warn(U) ==
    /\ Len(calls) < U.limit
    /\ \E a \in U.primitive :
          Invoke(U, "warn", None, Some(a[1]), None, a[2], Primitive(warn(a[1], a[2])))

Debug(U) ==
    /\ Len(calls) < U.limit
    /\ \E a \in U.primitive :
          Invoke(U, "debug", None, Some(a[1]), None, a[2], Primitive(debug(a[1], a[2])))

Verbose(U) ==
    /\ Len(calls) < U.limit
    /\ \E a \in U.primitive :
          Invoke(U, "verbose", None, Some(a[1]), None, a[2], Primitive(verbose(a[1], a[2])))

LogApiRequest(U) ==
    /\ Len(calls) < U.limit
    /\ \E a \in U.request :
          Invoke(U, "logApiRequest", Some(a[1]), None, None, a[2], logApiRequest(a[1], a[2]))

LogApiResponse(U) ==
    /\ Len(calls) < U.limit
    /\ \E a \in U.response :
          Invoke(U, "logApiResponse", Some(a[1]), None, None, a[2], logApiResponse(a[1], a[2]))

LogQuery(U) ==
    /\ Len(calls) < U.limit
    /\ \E a \in U.query :
          Invoke(U, "logQuery", Some(a[1]), None, None, a[2], logQuery(a[1], a[2]))

LogError(U) ==
    /\ Len(calls) < U.limit
    /\ \E a \in U.errorLog :
          Invoke(U, "logError", Some(a[1]), None, None, a[2], logError(a[1], a[2]))

Step(U) ==
    \/ Log(U)
    \/ Error(U)
    \/ Warn(U)
    \/ Debug(U)
    \/ Verbose(U)
    \/ LogApiRequest(U)
    \/ LogApiResponse(U)
    \/ LogQuery(U)
    \/ LogError(U)

Next == Step(Sequenced)

\* histories of up to MaxCalls calls
Spec == Init /\ [][Next]_vars

NextRender == Step(Grid)

\* one call on a fresh service, over the grid of records
SpecRender == Init /\ [][NextRender]_vars

NextSink == Step(Failing)

\* histories of up to MaxSinkCalls calls on a console that can throw
SpecSink == Init /\ [][NextSink]_vars

---------------------------------------------------------------------------
(* Vocabulary of the properties *)

Primitives == {"log", "error", "warn", "debug", "verbose"}

Specialized == {"logApiRequest", "logApiResponse", "logQuery", "logError"}

SeverityTag(op) ==
    CASE op \in {"log", "logApiRequest", "logApiResponse", "logQuery"} -> "[LOG]"
      [] op \in {"error", "logError"} -> "[ERROR]"
      [] op = "warn" -> "[WARN]"
      [] op = "debug" -> "[DEBUG]"
      [] op = "verbose" -> "[VERBOSE]"

SinkOf(op) ==
    CASE op \in {"log", "logApiRequest", "logApiResponse", "logQuery"} -> "console.log"
      [] op \in {"error", "logError"} -> "console.error"
      [] op = "warn" -> "console.warn"
      [] op = "debug" -> "console.debug"
      [] op = "verbose" -> "console.info"

DefaultContext(op) ==
    CASE op = "logApiRequest" -> "API_REQUEST"
      [] op = "logApiResponse" -> "API_RESPONSE"
      [] op = "logQuery" -> "QUERY"
      [] op = "logError" -> "ERROR"

\* <<property, key label, how the value is written>> in the fixed order
FieldsOf(op) ==
    CASE op = "logApiRequest" ->
            <<(<<"method", "Method", "text">>), <<"url", "URL", "text">>,
              <<"body", "Body", "json">>, <<"headers", "Headers", "json">>,
              <<"userAgent", "UserAgent", "text">>, <<"ip", "IP", "text">>>>
      [] op = "logApiResponse" ->
            <<(<<"status", "Status", "number">>), <<"duration", "Duration", "ms">>,
              <<"body", "Body", "json">>, <<"contentLength", "ContentLength", "number">>,
              <<"timestamp", "Timestamp", "date">>>>
      [] op = "logQuery" ->
            <<(<<"sql", "SQL", "text">>), <<"params", "Params", "json">>,
              <<"duration", "Duration", "ms">>, <<"rows", "Rows", "number">>,
              <<"database", "Database", "text">>, <<"table", "Table", "text">>>>
      [] op = "logError" ->
            <<(<<"message", "Message", "text">>), <<"exception", "Exception", "text">>,
              <<"fileName", "File", "text">>, <<"lineNumber", "Line", "number">>,
              <<"userId", "UserId", "text">>, <<"requestId", "RequestId", "text">>>>

RequiredOf(op) ==
    CASE op = "logApiRequest" -> {"method", "url"}
      [] op = "logApiResponse" -> {"status", "duration"}
      [] op = "logQuery" -> {"sql", "duration"}
      [] op = "logError" -> {"message"}

StructuredOf(op) ==
    CASE op = "logApiRequest" -> {"body", "headers"}
      [] op = "logApiResponse" -> {"body"}
      [] op = "logQuery" -> {"params"}
      [] op = "logError" -> {}

ValueText(how, v) ==
    CASE how = "text" -> v
      [] how = "number" -> ToString(v)
      [] how = "ms" -> ToString(v) \o "ms"
      [] how = "json" -> TemplateOfJSON(v)
      [] how = "date" -> toISOString(v)

\* the tokens of the properties that were supplied, whatever their value
SuppliedTokens(op, data) ==
    LET given == SelectSeq(FieldsOf(op), LAMBDA f : data[f[1]] # None)
    IN [j \in 1..Len(given) |->
          "[" \o given[j][2] \o "=" \o ValueText(given[j][3], data[given[j][1]][1]) \o "]"]

Contains(s, t) ==
    \E i \in 1..(Len(s) - Len(t) + 1) : SubSeq(s, i, i + Len(t) - 1) = t

\* a value with no JSON text: a function, a circular structure, or an array
\* holding one
RECURSIVE NoJSONForm(_)
NoJSONForm(v) ==
    \/ v.k \in {"function", "circular"}
    \/ v.k = "array" /\ \E i \in 1..Len(v.items) : NoJSONForm(v.items[i])
    \/ v.k = "object" /\ \E i \in 1..Len(v.members) : NoJSONForm(v.members[i].val)

\* the number of console writes made before call i
RECURSIVE Offset(_)
Offset(i) == IF i = 1 THEN 0 ELSE Offset(i - 1) + Len(calls[i - 1].writes)

\* the console writes between the start and the end of call i
Segment(i) == SubSeq(console, Offset(i) + 1, Offset(i) + Len(calls[i].writes))

\* the trace handed to error, or the stackTrace of the record handed to logError
TraceOf(c) == IF c.op = "logError" THEN c.data[1].stackTrace ELSE c.trace

\* the message and the context the primary line of a returned call is made of
MessageOf(c) == IF c.op \in Specialized THEN c.rendered[1] ELSE c.message[1]

TagOf(c) ==
    IF c.op \in Specialized
    THEN "[" \o (IF c.context # None /\ c.context[1] # "" THEN c.context[1]
                 ELSE DefaultContext(c.op)) \o "]"
    ELSE IF c.context # None /\ c.context[1] # "" THEN "[" \o c.context[1] \o "]"
    ELSE ""

PrimaryLine(c) == Write(SinkOf(c.op), SeverityTag(c.op) \o TagOf(c) \o " " \o MessageOf(c))

---------------------------------------------------------------------------
(* C1: for each record kind the rendered message is exactly the tokens of   *)
(* the fields that were supplied (whatever their value, empty string and    *)
(* zero included), in the fixed order, joined by single spaces, and holds   *)
(* no token for a field that was not supplied.                              *)
C1_TokensOfSuppliedFields ==
    \A i \in 1..Len(calls) :
        LET c == calls[i]
        IN (c.op \in Specialized /\ c.threw = "") =>
              c.rendered = Some(Join(SuppliedTokens(c.op, c.data[1]), " "))

(* C2: a numeric field supplied as zero still renders its token:            *)
(* logApiResponse with status 0 / duration 0 writes [Status=0] /            *)
(* [Duration=0ms], logQuery with duration 0 / rows 0 writes [Duration=0ms]  *)
(* / [Rows=0], and logQuery({sql:"SELECT 1", duration:0, rows:0}, "Svc")    *)
(* writes a line containing [SQL=SELECT 1] [Duration=0ms] [Rows=0].         *)
C2_ZeroStillRendered ==
    \A i \in 1..Len(calls) :
        LET c == calls[i]
            d == c.data[1]
            line == c.writes[1].text
        IN /\ (c.op = "logApiResponse" /\ c.threw = "") =>
                 /\ d.status = Some(0) => Contains(line, "[Status=0]")
                 /\ d.duration = Some(0) => Contains(line, "[Duration=0ms]")
           /\ (c.op = "logQuery" /\ c.threw = "") =>
                 /\ d.duration = Some(0) => Contains(line, "[Duration=0ms]")
                 /\ d.rows = Some(0) => Contains(line, "[Rows=0]")
                 /\ (/\ d = SelectOne
                     /\ c.context = Some("Svc"))
                       => Contains(line, "[SQL=SELECT 1] [Duration=0ms] [Rows=0]")

(* C3: the primary line of log / error / warn / debug / verbose is the      *)
(* severity tag, then [context] exactly when the context is non-empty, then *)
(* one space, then the message unchanged; log("hello") with no context      *)
(* writes exactly "[LOG] hello".                                            *)
C3_PrimitiveLine ==
    \A i \in 1..Len(calls) :
        LET c == calls[i]
        IN c.op \in Primitives =>
              /\ Segment(i) # <<>>
              /\ Segment(i)[1].text =
                    SeverityTag(c.op)
                    \o (IF c.context # None /\ c.context[1] # ""
                        THEN "[" \o c.context[1] \o "]" ELSE "")
                    \o " " \o c.message[1]
              /\ (c.op = "log" /\ c.message = Some("hello") /\ c.context = None)
                    => Segment(i)[1].text = "[LOG] hello"

\* warn("[x] y", "Svc") was called and its line is on the console
C3_Witness ==
    /\ Len(calls) = 1
    /\ calls[1].op = "warn"
    /\ calls[1].message = Some("[x] y")
    /\ calls[1].context = Some("Svc")
    /\ console = <<Write("console.warn", "[WARN][Svc] [x] y")>>

(* C4: when error is called with a trace, or logError with a record that    *)
(* has a stackTrace, the console receives the [ERROR] primary line and, as  *)
(* the very next write, one write whose text is the trace unmodified; with  *)
(* no trace only the primary line is written.  As stated: for every trace   *)
(* that was supplied.                                                       *)
C4_TraceWhenSupplied ==
    \A i \in 1..Len(calls) :
        LET c == calls[i]
        IN (c.op \in {"error", "logError"} /\ c.threw = "") =>
              Segment(i) =
                 <<PrimaryLine(c)>> \o
                 (IF TraceOf(c) # None
                  THEN <<Write("console.error", TraceOf(c)[1])>> ELSE <<>>)

(* C4 as amended: the trace line follows exactly when the trace supplied is *)
(* not the empty string; the primary line is the [ERROR] line of the        *)
(* message and the context alone.                                           *)
C4_TraceWhenNonEmpty ==
    \A i \in 1..Len(calls) :
        LET c == calls[i]
        IN (c.op \in {"error", "logError"} /\ c.threw = "") =>
              Segment(i) =
                 <<PrimaryLine(c)>> \o
                 (IF TraceOf(c) # None /\ TraceOf(c)[1] # ""
                  THEN <<Write("console.error", TraceOf(c)[1])>> ELSE <<>>)

\* logError({message:"boom", stackTrace: Trace}, "Svc") after another call:
\* the primary line and then the trace
C4_Witness ==
    /\ Len(calls) = 2
    /\ calls[1].op = "warn"
    /\ calls[2].op = "logError"
    /\ calls[2].data = Some(Boom(Some(Trace)))
    /\ calls[2].context = Some("Svc")
    /\ console = <<Write("console.warn", "[WARN] hello"),
                   Write("console.error", "[ERROR][Svc] [Message=boom]"),
                   Write("console.error", "trace-line-1\ntrace-line-2")>>

(* C5: a specialized operation called without a context writes its line     *)
(* with the default tag of its kind; called with a context it writes the    *)
(* line with exactly that context.  As stated: for every context supplied.  *)
C5_ContextAsSupplied ==
    \A i \in 1..Len(calls) :
        LET c == calls[i]
            tag == IF c.context = None THEN DefaultContext(c.op) ELSE c.context[1]
        IN (c.op \in Specialized /\ c.threw = "") =>
              c.writes[1].text =
                 SeverityTag(c.op) \o "[" \o tag \o "] " \o c.rendered[1]

(* C5 as amended: the default tag is written when no context or the empty   *)
(* string is supplied, the supplied context when it is non-empty.           *)
C5_DefaultContext ==
    \A i \in 1..Len(calls) :
        LET c == calls[i]
            tag == IF c.context = None \/ c.context = Some("")
                   THEN DefaultContext(c.op) ELSE c.context[1]
        IN (c.op \in Specialized /\ c.threw = "") =>
              /\ Segment(i) # <<>>
              /\ Segment(i)[1].text =
                    SeverityTag(c.op) \o "[" \o tag \o "] " \o c.rendered[1]

\* logApiRequest({method:"GET", url:"/x"}) with no context
C5_Witness ==
    /\ Len(calls) = 1
    /\ calls[1].op = "logApiRequest"
    /\ calls[1].data = Some(Get)
    /\ calls[1].context = None
    /\ console = <<Write("console.log", "[LOG][API_REQUEST] [Method=GET] [URL=/x]")>>

(* C6: a specialized operation called with a record that lacks a required   *)
(* field signals an error to its caller and writes nothing.                 *)
C6_MissingRequiredRejected ==
    \A i \in 1..Len(calls) :
        LET c == calls[i]
        IN (c.op \in Specialized /\ \E f \in RequiredOf(c.op) : c.data[1][f] = None) =>
              /\ c.threw # ""
              /\ c.writes = <<>>

\* the writes expected of the calls 1..n, in call order: nothing of a
\* call that threw, else the primary line and the trace line: of every trace
\* supplied (emptyToo), or of the non-empty ones only
RECURSIVE ExpectedConsole(_, _)
ExpectedConsole(n, emptyToo) ==
    IF n = 0 THEN <<>>
    ELSE LET c == calls[n]
             t == TraceOf(c)
         IN ExpectedConsole(n - 1, emptyToo) \o
            (IF c.threw # "" THEN <<>>
             ELSE <<PrimaryLine(c)>> \o
                  (IF /\ c.op \in {"error", "logError"}
                      /\ t # None
                      /\ (emptyToo \/ t[1] # "")
                   THEN <<Write("console.error", TraceOf(c)[1])>> ELSE <<>>))

(* C7: after any sequence of calls the console holds, in call order, one    *)
(* primary line for each call that returned, followed by one trace line for *)
(* an error / logError call with a trace, and nothing else.  As stated: a   *)
(* trace line for every trace that was supplied.                            *)
C7_CallOrderSupplied ==
    console = ExpectedConsole(Len(calls), TRUE)

(* C7 as amended: the trace line is there exactly for a non-empty trace.    *)
C7_CallOrder ==
    console = ExpectedConsole(Len(calls), FALSE)

\* three calls, the second an error with a trace: four writes in call order
C7_Witness ==
    /\ Len(calls) = 3
    /\ calls[1].op = "logQuery"
    /\ calls[2].op = "error"
    /\ calls[2].trace = Some(Trace)
    /\ calls[3].op = "debug"
    /\ Len(console) = 4
    /\ console[2] = Write("console.error", "[ERROR] boom")
    /\ console[3] = Write("console.error", Trace)
    /\ console[4] = Write("console.debug", "[DEBUG][Svc] hello")

\* the writes made to one sink, in order
SinkContents(con, sink) == SelectSeq(con, LAMBDA w : w.sink = sink)

(* C8: every call writes only to the sink of its operation and leaves the   *)
(* writes already made, and every other sink, unchanged: log, logApiRequest,*)
(* logApiResponse and logQuery write one [LOG] line to console.log, error   *)
(* and logError their [ERROR] line and trace to console.error, warn to      *)
(* console.warn, debug to console.debug, verbose to console.info; the       *)
(* writes of a specialized operation are those of the matching primitive    *)
(* for the rendered message.                                                *)
C8_OwnSink ==
    [][LET c == calls'[Len(calls')]
           new == SubSeq(console', Len(console) + 1, Len(console'))
           ctx == IF c.context # None /\ c.context[1] # "" THEN c.context
                  ELSE Some(DefaultContext(c.op))
       IN /\ SubSeq(console', 1, Len(console)) = console
          /\ \A s \in Sinks \ {SinkOf(c.op)} :
                SinkContents(console', s) = SinkContents(console, s)
          /\ \A k \in 1..Len(new) : new[k].sink = SinkOf(c.op)
          /\ c.threw = "" =>
                /\ new # <<>>
                /\ SubSeq(new[1].text, 1, Len(SeverityTag(c.op))) = SeverityTag(c.op)
                /\ c.op \notin {"error", "logError"} => Len(new) = 1
                /\ c.op \in {"logApiRequest", "logApiResponse", "logQuery"} =>
                      new = log(c.rendered[1], ctx)
                /\ c.op = "logError" =>
                      new = error(c.rendered[1], c.data[1].stackTrace, ctx)
      ]_vars

\* verbose, logError with a trace and logQuery have each written to their sink
C8_Witness ==
    /\ Len(calls) = 3
    /\ calls[1].op = "verbose"
    /\ calls[2].op = "logError"
    /\ calls[3].op = "logQuery"
    /\ SinkContents(console, "console.info") = <<Write("console.info", "[VERBOSE] hello")>>
    /\ Len(SinkContents(console, "console.error")) = 2
    /\ SinkContents(console, "console.log") =
          <<Write("console.log", "[LOG][QUERY] [SQL=SELECT 1] [Params=[10]] [Duration=15ms] [Rows=1]")>>
    /\ SinkContents(console, "console.warn") = <<>>
    /\ SinkContents(console, "console.debug") = <<>>

(* C9: a specialized operation called with a body, headers or params value  *)
(* that has no JSON text signals a failure to its caller and writes         *)
(* nothing; no line with a placeholder for the value is written.            *)
C9_UnserializableRejected ==
    \A i \in 1..Len(calls) :
        LET c == calls[i]
        IN (/\ c.op \in Specialized
            /\ \E f \in StructuredOf(c.op) :
                  c.data[1][f] # None /\ NoJSONForm(c.data[1][f][1])) =>
              /\ c.threw # ""
              /\ c.writes = <<>>

C11_SinkFailurePropagates ==
    \A i \in 1..Len(calls) :
        LET c == calls[i]
        IN c.failed # None =>
              /\ c.threw = "SinkError"
              /\ c.attempts = c.writes \o c.failed
              /\ Segment(i) = c.writes
              /\ Len(console) = Offset(Len(calls)) + Len(calls[Len(calls)].writes)

\* logError with a stack trace whose second console.error call threw, after a
\* call that went through: the primary line is on the console, the trace is not
C11_Witness ==
    /\ Len(calls) = 2
    /\ calls[1].op = "logQuery"
    /\ calls[1].failed = None
    /\ calls[2].op = "logError"
    /\ calls[2].failed = Some(Write("console.error", Trace))
    /\ calls[2].threw = "SinkError"
    /\ console = <<Write("console.log", "[LOG][QUERY] [SQL=SELECT 1] [Params=[10]] [Duration=15ms] [Rows=1]"),
                   Write("console.error", "[ERROR][Svc] [Message=boom]")>>

====
